---- MODULE Spec2Model ----
(***************************************************************************)
(* Model of lib_dsp/src/float/dsp_fp_vector.c: the four element-wise       *)
(* vector kernels dsp_sub_vect_float, dsp_add_vect_float,                  *)
(* dsp_mul_vect_float and dsp_mul_vect_complex_float.                      *)
(*                                                                         *)
(* A call is modelled statement by statement: Call enters the function and *)
(* runs the loop initialiser, Step runs one iteration of the loop body,    *)
(* Return leaves the loop when its condition is false.  The pointer        *)
(* parameters a, b, c name caller buffers; two parameters naming the same  *)
(* buffer alias each other, exactly as two equal C pointers do.            *)
(*                                                                         *)
(* Samples are finite doubles on which the arithmetic is exact; they are   *)
(* modelled by integers.  Rounding, infinities and NaN are outside the     *)
(* value domain of this model.                                             *)
(***************************************************************************)
EXTENDS Integers, Sequences, FiniteSets, TLC

(* ---- bounds of the model ---- *)
MaxLen == 2
MaxVal == 1
NBuf == 4

Buf == 1 .. NBuf
BufLen == MaxLen + 1
Value == 0 .. MaxVal

Ops == {"sub", "add", "mul", "mul_complex"}
RealOps == {"sub", "add", "mul"}

(* dsp_complex_float_t: a pair of doubles, re then im *)
Complex(r, m) == [re |-> r, im |-> m]

(* The complex samples of the inputs: 0, 1, i and 1 + i *)
CValue == {Complex(r, m) : r \in {0, 1}, m \in {0, 1}}

(* Content of a caller buffer the call was not given data for: a value    *)
(* that differs from buffer to buffer.                                     *)
Fill(k, o) == IF o = "mul_complex" THEN Complex(k, k + 1) ELSE k
FillBuf(k, o) == [j \in 1 .. BufLen |-> Fill(k, o)]
Load(k, o, x) == [j \in 1 .. BufLen |-> IF j <= Len(x) THEN x[j] ELSE Fill(k, o)]

(* The input sequences a caller may pass for a call of length len: all    *)
(* sequences over the sample values and, for the complex multiply, the    *)
(* product (1,2) * (3,4).                                                  *)
Inputs(o, len) ==
    IF o = "mul_complex"
    THEN ([1 .. len -> CValue] \X [1 .. len -> CValue])
         \cup (IF len = 1 THEN {<< << Complex(1, 2) >>, << Complex(3, 4) >> >>} ELSE {})
    ELSE [1 .. len -> Value] \X [1 .. len -> Value]

VARIABLES
    op,       \* which of the four functions is running ("none" before a call)
    a, b, c,  \* the three pointer parameters: output, first input, second input
    length,   \* the `length` parameter
    i,        \* the loop variable
    pc,       \* "idle", "loop" (in the for statement), "done" (returned)
    mem,      \* the caller's buffers: mem[k][j+1] is element j of buffer k
    mem0,     \* the buffers as they were at call time
    reads,    \* the <<buffer, index>> pairs the call has read
    writes,   \* the <<buffer, index>> pairs the call has written
    visited,  \* the values the loop variable had in the iterations run so far
    hist      \* the earlier calls of a sequence of calls, oldest first

vars == << op, a, b, c, length, i, pc, mem, mem0, reads, writes, visited, hist >>

(* ---- the loop header: for (unsigned i=0; i<length; i++) ---- *)
LoopInit == 0

LoopCondLE(idx, len) == idx <= len
LoopCond(idx, len) == idx < len

(* i++ runs only after i < length held, and length fits in an unsigned,   *)
(* so the increment never wraps.                                           *)
NextIndexTwo(idx) == idx + 2
NextIndex(idx) == idx + 1

(* ---- the loop bodies; m is the memory, idx the C index ---- *)

(* a[i] = b[i] - c[i]; *)
SubStmtReversed(m, pa, pb, pcc, idx) ==
    [m EXCEPT ![pa][idx + 1] = m[pcc][idx + 1] - m[pb][idx + 1]]
SubStmt(m, pa, pb, pcc, idx) ==
    [m EXCEPT ![pa][idx + 1] = m[pb][idx + 1] - m[pcc][idx + 1]]

(* a[i] = b[i] + c[i]; *)
AddStmtTwoStep(m, pa, pb, pcc, idx) ==
    LET m1 == [m EXCEPT ![pa][idx + 1] = m[pb][idx + 1]]
    IN  [m1 EXCEPT ![pa][idx + 1] = m1[pa][idx + 1] + m1[pcc][idx + 1]]
AddStmtSameInput(m, pa, pb, pcc, idx) ==
    [m EXCEPT ![pa][idx + 1] = m[pb][idx + 1] + m[pb][idx + 1]]
AddStmt(m, pa, pb, pcc, idx) ==
    [m EXCEPT ![pa][idx + 1] = m[pb][idx + 1] + m[pcc][idx + 1]]

(* a[i] = b[i] * c[i]; *)
MulStmtClobber(m, pa, pb, pcc, idx) ==
    LET m1 == [m EXCEPT ![pb][idx + 1] = m[pb][idx + 1] * m[pcc][idx + 1]]
    IN  [m1 EXCEPT ![pa][idx + 1] = m1[pb][idx + 1]]
MulStmt(m, pa, pb, pcc, idx) ==
    [m EXCEPT ![pa][idx + 1] = m[pb][idx + 1] * m[pcc][idx + 1]]

(* a[i].re = b[i].re * c[i].re - b[i].im * c[i].im ; *)
CMulRePlus(m, pa, pb, pcc, idx) ==
    [m EXCEPT ![pa][idx + 1].re =
        m[pb][idx + 1].re * m[pcc][idx + 1].re + m[pb][idx + 1].im * m[pcc][idx + 1].im]
CMulRe(m, pa, pb, pcc, idx) ==
    [m EXCEPT ![pa][idx + 1].re =
        m[pb][idx + 1].re * m[pcc][idx + 1].re - m[pb][idx + 1].im * m[pcc][idx + 1].im]

(* a[i].im = b[i].re * c[i].im + b[i].im * c[i].re ; *)
CMulImMinus(m, pa, pb, pcc, idx) ==
    [m EXCEPT ![pa][idx + 1].im =
        m[pb][idx + 1].re * m[pcc][idx + 1].im - m[pb][idx + 1].im * m[pcc][idx + 1].re]
CMulImSwapped(m, pa, pb, pcc, idx) ==
    [m EXCEPT ![pa][idx + 1].im =
        m[pb][idx + 1].re * m[pcc][idx + 1].re + m[pb][idx + 1].im * m[pcc][idx + 1].im]
CMulIm(m, pa, pb, pcc, idx) ==
    [m EXCEPT ![pa][idx + 1].im =
        m[pb][idx + 1].re * m[pcc][idx + 1].im + m[pb][idx + 1].im * m[pcc][idx + 1].re]

(* One iteration of the loop body of function o.  The two statements of   *)
(* the complex multiply run in program order, the second on the memory    *)
(* the first has left.                                                     *)
Body(o, m, pa, pb, pcc, idx) ==
    CASE o = "sub" -> SubStmt(m, pa, pb, pcc, idx)
      [] o = "add" -> AddStmt(m, pa, pb, pcc, idx)
      [] o = "mul" -> MulStmt(m, pa, pb, pcc, idx)
      [] o = "mul_complex" -> CMulIm(CMulRe(m, pa, pb, pcc, idx), pa, pb, pcc, idx)

(* The whole loop of function o, from index idx on *)
RECURSIVE RunLoop(_, _, _, _, _, _, _)
RunLoop(o, m, pa, pb, pcc, len, idx) ==
    IF LoopCond(idx, len)
    THEN RunLoop(o, Body(o, m, pa, pb, pcc, idx), pa, pb, pcc, len, NextIndex(idx))
    ELSE m

(* A whole call of function o on memory m *)
RunCall(o, m, pa, pb, pcc, len) == RunLoop(o, m, pa, pb, pcc, len, LoopInit)

(* ---- the state machine ---- *)

Init ==
    /\ op = "none"
    /\ a = 1 /\ b = 1 /\ c = 1
    /\ length = 0
    /\ i = 0
    /\ pc = "idle"
    /\ mem = [k \in Buf |-> FillBuf(k, "none")]
    /\ mem0 = [k \in Buf |-> FillBuf(k, "none")]
    /\ reads = {}
    /\ writes = {}
    /\ visited = << >>
    /\ hist = << >>

(* Function entry: the caller passes three buffers and a length, the      *)
(* inputs hold xb and xc, and the loop initialiser runs.                   *)
Enter(o, pa, pb, pcc, len, m) ==
    /\ op' = o
    /\ a' = pa /\ b' = pb /\ c' = pcc
    /\ length' = len
    /\ i' = LoopInit
    /\ pc' = "loop"
    /\ mem' = m
    /\ mem0' = m
    /\ reads' = {}
    /\ writes' = {}
    /\ visited' = << >>

CallOp(o) ==
    /\ pc = "idle"
    /\ \E pa \in Buf, pb \in Buf, pcc \in Buf, len \in 0 .. MaxLen :
         \E x \in Inputs(o, len) :
            /\ (pb = pcc) => (x[2] = x[1])
            /\ Enter(o, pa, pb, pcc, len,
                     [k \in Buf |-> IF k = pb THEN Load(k, o, x[1])
                                    ELSE IF k = pcc THEN Load(k, o, x[2])
                                    ELSE FillBuf(k, o)])
    /\ UNCHANGED hist

Call == \E o \in Ops : CallOp(o)

(* One iteration: the condition holds, the body runs, i++ *)
Step ==
    /\ pc = "loop"
    /\ LoopCond(i, length)
    /\ mem' = Body(op, mem, a, b, c, i)
    /\ reads' = reads \cup {<< b, i >>, << c, i >>}
    /\ writes' = writes \cup {<< a, i >>}
    /\ visited' = Append(visited, i)
    /\ i' = NextIndex(i)
    /\ UNCHANGED << op, a, b, c, length, pc, mem0, hist >>

(* The condition is false: the loop ends and the function returns *)
Return ==
    /\ pc = "loop"
    /\ ~ LoopCond(i, length)
    /\ pc' = "done"
    /\ UNCHANGED << op, a, b, c, length, i, mem, mem0, reads, writes, visited, hist >>

Next == Call \/ Step \/ Return

Spec == Init /\ [][Next]_vars

(* ---- the add / subtract round trip: dsp_add_vect_float(R, A, B, N)     *)
(* followed by dsp_sub_vect_float(S, R, B, N) on the memory the first     *)
(* call has left ---- *)

CallAdd == CallOp("add")

CallSubOfSum ==
    /\ pc = "done"
    /\ op = "add"
    /\ hist = << >>
    /\ \E ps \in Buf :
         /\ hist' = << [a |-> a, b |-> b, c |-> c, length |-> length, mem0 |-> mem0] >>
         /\ Enter("sub", ps, a, c, length, mem)

NextRT == CallAdd \/ Step \/ Return \/ CallSubOfSum

SpecRT == Init /\ [][NextRT]_vars

(* ---- auxiliary definitions of the properties ---- *)

Called == pc \in {"loop", "done"}
Returned == pc = "done"
Indices == 0 .. length - 1
Aliased == a = b \/ a = c

(* A buffer that is none of the caller's buffers *)
FreshBuf == NBuf + 1

(* What the same call writes into a fresh output buffer, from the inputs  *)
(* as they were at call time.                                              *)
FreshResult ==
    RunCall(op,
            [k \in Buf \cup {FreshBuf} |->
                IF k \in Buf THEN mem0[k] ELSE FillBuf(k, op)],
            FreshBuf, b, c, length)[FreshBuf]

(* What the call with its two inputs exchanged leaves in the output *)
SwappedResult == RunCall(op, mem0, a, c, b, length)[a]

(* The first `length` elements of buffer k were all (1, 0) at call time *)
IsOnes(k) == \A j \in Indices : mem0[k][j + 1] = Complex(1, 0)

(* ---- C1 ---- *)
(* C1: with an output buffer that is neither input, the complex multiply  *)
(* leaves a[i].re = b[i].re*c[i].re - b[i].im*c[i].im and                  *)
(* a[i].im = b[i].re*c[i].im + b[i].im*c[i].re for every i < length, b    *)
(* and c being the inputs at call time.                                    *)
C1_ComplexProduct ==
    (Returned /\ op = "mul_complex" /\ ~ Aliased) =>
        \A j \in Indices :
            /\ mem[a][j + 1].re = mem0[b][j + 1].re * mem0[c][j + 1].re
                                  - mem0[b][j + 1].im * mem0[c][j + 1].im
            /\ mem[a][j + 1].im = mem0[b][j + 1].re * mem0[c][j + 1].im
                                  + mem0[b][j + 1].im * mem0[c][j + 1].re

C1_Witness ==
    /\ Returned /\ op = "mul_complex" /\ ~ Aliased
    /\ length = 1
    /\ mem0[b][1] = Complex(1, 2)
    /\ mem0[c][1] = Complex(3, 4)
    /\ mem[a][1] = Complex(-5, 10)

(* ---- C2 ---- *)
(* C2: a complex multiply whose output buffer is one of its input buffers *)
(* leaves, at every i < length, the pair the same call writes into a      *)
(* fresh output buffer.                                                    *)
C2_InPlaceComplex ==
    (Returned /\ op = "mul_complex" /\ Aliased) =>
        \A j \in Indices : mem[a][j + 1] = FreshResult[j + 1]

(* ---- C3 ---- *)
(* C3: a real subtract, add or multiply whose output buffer is one of its *)
(* input buffers leaves, at every i < length, the value the same call     *)
(* writes into a fresh output buffer.                                      *)
C3_InPlaceReal ==
    (Returned /\ op \in RealOps /\ Aliased) =>
        \A j \in Indices : mem[a][j + 1] = FreshResult[j + 1]

C3_Witness ==
    /\ Returned /\ op = "add" /\ a = c /\ a # b
    /\ length >= 1
    /\ mem0[b][1] = 1 /\ mem0[c][1] = 0
    /\ mem[a][1] = 1

(* ---- C4 ---- *)
(* C4: after the call, for every i < length, subtract leaves              *)
(* a[i] = b[i] - c[i], add leaves a[i] = b[i] + c[i] and multiply leaves  *)
(* a[i] = b[i] * c[i], b and c being the inputs at call time.             *)
C4_RealResults ==
    Returned =>
        \A j \in Indices :
            /\ op = "sub" => mem[a][j + 1] = mem0[b][j + 1] - mem0[c][j + 1]
            /\ op = "add" => mem[a][j + 1] = mem0[b][j + 1] + mem0[c][j + 1]
            /\ op = "mul" => mem[a][j + 1] = mem0[b][j + 1] * mem0[c][j + 1]

C4_Witness ==
    /\ Returned /\ op = "sub"
    /\ length >= 1
    /\ mem0[b][1] = 0 /\ mem0[c][1] = 1
    /\ mem[a][1] = -1

(* ---- C5 ---- *)
(* C5: a call with length 0 reads and writes no element, runs no          *)
(* iteration, and leaves every element of every buffer as it was.         *)
C5_ZeroLength ==
    (Called /\ length = 0) =>
        /\ reads = {}
        /\ writes = {}
        /\ visited = << >>
        /\ mem = mem0

C5_Witness == Returned /\ length = 0 /\ op = "mul_complex"

(* ---- C6 ---- *)
(* C6: a call writes only elements of the output buffer at indices below  *)
(* length: every element of another buffer, and every element of the      *)
(* output buffer at an index >= length, keeps its value.                  *)
C6_Frame ==
    Called =>
        /\ \A w \in writes : w[1] = a /\ w[2] \in Indices
        /\ \A k \in Buf : \A j \in 0 .. BufLen - 1 :
              (k # a \/ j >= length) => mem[k][j + 1] = mem0[k][j + 1]

C6_Witness ==
    /\ Returned /\ op = "mul" /\ ~ Aliased /\ b # c
    /\ length = 1
    /\ mem[a] # mem0[a]
    /\ mem0[b][1] = 1 /\ mem0[c][1] = 0

(* ---- C7 ---- *)
(* C7: the loop variable takes the values 0, 1, ... in increasing order,  *)
(* every access uses an index below length, and the call returns after    *)
(* exactly length iterations.                                              *)
C7_SinglePass ==
    Called =>
        /\ visited = [j \in 1 .. Len(visited) |-> j - 1]
        /\ i = Len(visited)
        /\ i <= length
        /\ \A r \in reads \cup writes : r[2] \in Indices
        /\ Returned => Len(visited) = length

C7_Witness ==
    /\ Returned /\ length = MaxLen /\ op = "mul_complex"
    /\ visited = [j \in 1 .. MaxLen |-> j - 1]

(* ---- C8 ---- *)
(* C8: dsp_add_vect_float(R, A, B, N) followed by                          *)
(* dsp_sub_vect_float(S, R, B, N) leaves S[i] = A[i] for every i < N, A   *)
(* as it was before the add, provided the add did not overwrite B; R and  *)
(* S may be A itself.                                                      *)
C8_RoundTrip ==
    (Returned /\ op = "sub" /\ Len(hist) = 1 /\ hist[1].a # hist[1].c) =>
        \A j \in Indices : mem[a][j + 1] = hist[1].mem0[hist[1].b][j + 1]

C8_Witness ==
    /\ Returned /\ op = "sub" /\ Len(hist) = 1
    /\ hist[1].a = hist[1].b /\ hist[1].a # hist[1].c /\ a = hist[1].a
    /\ length = MaxLen
    /\ hist[1].mem0[hist[1].b][1] = 0
    /\ hist[1].mem0[hist[1].c][1] = 1
    /\ mem[a][1] = 0

(* ---- C9 ---- *)
(* C9: with an output buffer that is neither input, the real multiply and *)
(* the complex multiply leave at every i < length what the call with the  *)
(* two inputs exchanged leaves.                                            *)
C9_Commutative ==
    (Returned /\ op \in {"mul", "mul_complex"} /\ ~ Aliased) =>
        \A j \in Indices : mem[a][j + 1] = SwappedResult[j + 1]

C9_Witness ==
    /\ Returned /\ op = "mul_complex" /\ ~ Aliased /\ b # c
    /\ length >= 1
    /\ mem0[b][1] = Complex(1, 0)
    /\ mem0[c][1] = Complex(0, 1)
    /\ mem[a][1] = Complex(0, 1)

====
